---- MODULE Spec2Model ----
(***************************************************************************)
(* LazyDS4: the DS4 -> XInput input translator (utils/input_translator.py) *)
(* as a state machine.  The translator object's fields are the variables;  *)
(* its methods are operators over a record of those fields ("self"), and   *)
(* each public entry point is one action.                                  *)
(*                                                                         *)
(* Wall time (time.time()) is the variable now, counted in units of        *)
(* 100 ms: the drift gate (0.1 s) is 1 unit, the battery throttle (2 s)    *)
(* is 20 units.                                                            *)
(*                                                                         *)
(* Python's float arithmetic in _normalize_stick and                       *)
(* _analyze_drift_samples is modelled with exact integer arithmetic; for   *)
(* every byte and every range 1..255 the two agree (int((d/r)*32767) is    *)
(* the truncated quotient d*32767/r, and no comparison falls on a          *)
(* rounding boundary).                                                     *)
(***************************************************************************)
EXTENDS Integers, Sequences, FiniteSets, TLC

VARIABLES
    xinput_report,            \* self.xinput_report (the persistent XInputReport)
    last_battery_check,       \* self.last_battery_check
    is_calibrating,           \* self.is_calibrating
    calibration_data,         \* self.calibration_data
    drift_detection_enabled,  \* self.drift_detection_enabled
    drift_sample_count,       \* self.drift_sample_count
    drift_samples,            \* self.drift_samples
    drift_detected_axes,      \* self.drift_detected_axes
    last_drift_check,         \* self.last_drift_check
    drift_check_performed,    \* self.drift_check_performed
    emitted,                  \* the Qt signals emitted by the last call
    ret,                      \* what the last translate() returned
    last_call,                \* the last call made on the translator
    session_samples,          \* history: axis bytes recorded in the current/last calibration session
    analysed_samples,         \* history: the buffers the last drift analysis ran on
    threads,                  \* where the polling thread and the UI thread are in their calls
    service,                  \* the LazyDS4 object: its fields and its polling threads
    manager,                  \* the SettingsManager object
    now                       \* time.time(), in units of 100 ms

vars == <<xinput_report, last_battery_check, is_calibrating, calibration_data,
          drift_detection_enabled, drift_sample_count, drift_samples,
          drift_detected_axes, last_drift_check, drift_check_performed,
          emitted, ret, last_call, session_samples, analysed_samples, threads,
          service, manager, now>>

----------------------------------------------------------------------------
(* Bounds of the model *)

StartTime == 30      \* the wall clock when the translator is constructed
MaxTicks == 3        \* how far the wall clock advances

(* Program constants *)

FullReportLen == 64          \* device.read(64)
MinReportLen == 32           \* translate: len(hid_report) < 32
MinCalibLen == 5             \* calibrate / _check_for_drift: len(hid_report) < 5
BatteryPeriod == 20          \* current_time - last_battery_check > 2
DriftPeriod == 1             \* current_time - last_drift_check < 0.1
DriftWindow == 30            \* drift_sample_count >= 30
MinDriftSamples == 10        \* len(samples) < 10
ExpectedCenter == 128        \* expected_center = 128
FixedDeadzone == 4000        \* max(4000, ...)
DeadzoneSlope == 2000        \* 2000 * (abs(value - center) / ...)
FullScale == 32767           \* * 32767, clamp to +-32767
TriggerThreshold == 10       \* hid_report[8] > 10
SettleDelay == 5             \* time.sleep(0.5)
JoinTimeout == 20            \* self.thread.join(timeout=2)
LostBackoff == 30            \* time.sleep(3) after a ConnectionError
ConnectBackoff == 50         \* time.sleep(5) after a failed controller search
RetryDelay == 10             \* DS4Controller.RETRY_DELAY = 1.0
MaxRetryAttempts == 3        \* DS4Controller.MAX_RETRY_ATTEMPTS = 3

Axes == {"lx", "ly", "rx", "ry"}
AxisOrder == <<"lx", "ly", "rx", "ry">>     \* dict iteration order
Byte == 0..255

----------------------------------------------------------------------------
(* Arithmetic helpers *)

Max(a, b) == IF a >= b THEN a ELSE b
Min(a, b) == IF a <= b THEN a ELSE b
Abs(a) == IF a < 0 THEN -a ELSE a

RECURSIVE BitAnd(_, _)
BitAnd(a, b) ==
    IF a = 0 \/ b = 0 THEN 0
    ELSE (a % 2) * (b % 2) + 2 * BitAnd(a \div 2, b \div 2)

RECURSIVE BitOr(_, _)
BitOr(a, b) ==
    IF a = 0 THEN b
    ELSE IF b = 0 THEN a
    ELSE Max(a % 2, b % 2) + 2 * BitOr(a \div 2, b \div 2)

RECURSIVE SeqSum(_)
SeqSum(s) == IF s = <<>> THEN 0 ELSE Head(s) + SeqSum(Tail(s))

SeqMin(s) == CHOOSE x \in {s[i] : i \in DOMAIN s} : \A i \in DOMAIN s : x <= s[i]
SeqMax(s) == CHOOSE x \in {s[i] : i \in DOMAIN s} : \A i \in DOMAIN s : x >= s[i]
CountAbove(s, c) == Cardinality({i \in DOMAIN s : s[i] > c})
CountBelow(s, c) == Cardinality({i \in DOMAIN s : s[i] < c})

----------------------------------------------------------------------------
(* HID reports: a report is a function from 0..len-1 to bytes *)

ReportLen(r) == Cardinality(DOMAIN r)

Report(len, lx, ly, rx, ry, b5, b6, lt, rt, b12, b30) ==
    [i \in 0..(len - 1) |->
        CASE i = 1 -> lx [] i = 2 -> ly [] i = 3 -> rx [] i = 4 -> ry
          [] i = 5 -> b5 [] i = 6 -> b6 [] i = 8 -> lt [] i = 9 -> rt
          [] i = 12 -> b12 [] i = 30 -> b30 [] OTHER -> 0]

EmptyReport == [i \in {} |-> 0]

----------------------------------------------------------------------------
(* The translator object *)

NewXInputReport ==
    [wButtons |-> 0, bLeftTrigger |-> 0, bRightTrigger |-> 0,
     sThumbLX |-> 0, sThumbLY |-> 0, sThumbRX |-> 0, sThumbRY |-> 0]

SentinelEntry == [min |-> 255, max |-> 0, center |-> 128]
SentinelTable == [a \in Axes |-> SentinelEntry]

NoSignals ==
    [battery_status_updated |-> <<>>, calibration_started |-> 0,
     calibration_finished |-> <<>>, calibration_updated |-> <<>>,
     joystick_data_updated |-> <<>>, drift_detected |-> <<>>]

\* The translator's fields as one record, so that methods compose.
Self ==
    [xinput_report |-> xinput_report,
     last_battery_check |-> last_battery_check,
     is_calibrating |-> is_calibrating,
     calibration_data |-> calibration_data,
     drift_detection_enabled |-> drift_detection_enabled,
     drift_sample_count |-> drift_sample_count,
     drift_samples |-> drift_samples,
     drift_detected_axes |-> drift_detected_axes,
     last_drift_check |-> last_drift_check,
     drift_check_performed |-> drift_check_performed,
     emitted |-> NoSignals]

SetSelf(s) ==
    /\ xinput_report' = s.xinput_report
    /\ last_battery_check' = s.last_battery_check
    /\ is_calibrating' = s.is_calibrating
    /\ calibration_data' = s.calibration_data
    /\ drift_detection_enabled' = s.drift_detection_enabled
    /\ drift_sample_count' = s.drift_sample_count
    /\ drift_samples' = s.drift_samples
    /\ drift_detected_axes' = s.drift_detected_axes
    /\ last_drift_check' = s.last_drift_check
    /\ drift_check_performed' = s.drift_check_performed
    /\ emitted' = s.emitted

Emit(s, signal, payload) ==
    [s EXCEPT !.emitted[signal] = Append(@, payload)]

----------------------------------------------------------------------------
(* InputTranslator._normalize_stick *)

\* (a centre derived from the captured range instead of the fixed one)
CalibCenterMidpoint(calib) == (calib.min + calib.max) \div 2

\* calib.get('center', 128)
CalibCenter(calib) == calib.center

\* (the range taken as captured, without the guard)
RangeGuardNone(range) == range

\* (the size of the range taken, whatever its sign)
RangeGuardAbs(range) == Max(Abs(range), 1)

\* "Avoid division by zero": max(range, 1)
RangeGuard(range) == Max(range, 1)

\* int(x) of the quotient n/d: truncation toward zero
TruncDiv(n, d) ==
    LET q == Abs(n) \div Abs(d)
    IN  IF (n < 0) = (d < 0) THEN q ELSE -q

\* (no clamp: the value is cut to 16 bits and wraps)
ClampWrap(v) == ((v + 32768) % 65536) - 32768

\* max(-32767, min(32767, scaled))
Clamp(v) == Max(-FullScale, Min(FullScale, v))

\* (a proportional term steep enough to exceed the scaled value)
InDeadzoneSteep(num, den, dist, widest) ==
    \/ Abs(num) < FixedDeadzone * Abs(den)
    \/ /\ widest > 0
       /\ Abs(num) * widest < 20 * DeadzoneSlope * dist * Abs(den)

\* abs(scaled) < max(4000, 2000 * (abs(value - center) / max(neg_range, pos_range))),
\* with scaled = num / den, compared without rounding.
InDeadzone(num, den, dist, widest) ==
    \/ Abs(num) < FixedDeadzone * Abs(den)
    \/ /\ widest > 0
       /\ Abs(num) * widest < DeadzoneSlope * dist * Abs(den)

\* (both halves scaled by the negative range)
normalize_stick_one_range(table, value, axis, invert) ==
    LET calib == table[axis]
        center == CalibCenter(calib)
        neg_range == RangeGuard(center - calib.min)
        num == (value - center) * FullScale
        scaled == IF InDeadzone(num, neg_range, Abs(value - center), neg_range)
                  THEN 0
                  ELSE Clamp(TruncDiv(num, neg_range))
    IN  [raised |-> FALSE, value |-> IF invert THEN -scaled ELSE scaled]

\* The result is [raised, value]: raised is a ZeroDivisionError.
normalize_stick(table, value, axis, invert) ==
    LET calib == table[axis]
        center == CalibCenter(calib)
        min_val == calib.min
        max_val == calib.max
        neg_range == RangeGuard(center - min_val)
        pos_range == RangeGuard(max_val - center)
        den == IF value > center THEN pos_range
               ELSE IF value < center THEN neg_range
               ELSE 1
        num == (value - center) * FullScale
        widest == Max(neg_range, pos_range)
    IN  IF den = 0 \/ widest = 0
        THEN [raised |-> TRUE, value |-> 0]
        ELSE LET scaled == IF InDeadzone(num, den, Abs(value - center), widest)
                           THEN 0
                           ELSE Clamp(TruncDiv(num, den))
             IN  [raised |-> FALSE,
                  value |-> IF invert THEN -scaled ELSE scaled]

----------------------------------------------------------------------------
(* InputTranslator._extract_battery_info *)

\* (the nibble passed through without the x10 scaling)
BatteryLevelRaw(level_raw) == Max(0, Min(100, level_raw))

BatteryLevel(level_raw) ==
    IF level_raw <= 10
    THEN Max(0, Min(100, level_raw * 10))
    ELSE Max(0, Min(100, level_raw))

extract_battery_info(s, hid_report) ==
    IF ReportLen(hid_report) >= 31 /\ hid_report[30] # 0
    THEN Emit(s, "battery_status_updated",
              [level |-> BatteryLevel(BitAnd(hid_report[30], 15)),
               charging |-> BitAnd(hid_report[30], 16) # 0])
    ELSE IF ReportLen(hid_report) >= 13 /\ hid_report[12] # 0
    THEN Emit(s, "battery_status_updated",
              [level |-> Max(0, Min(100, hid_report[12])), charging |-> FALSE])
    ELSE Emit(s, "battery_status_updated", [level |-> 50, charging |-> FALSE])

----------------------------------------------------------------------------
(* InputTranslator._analyze_drift_samples, _calculate_drift_severity *)

AxisName(axis) ==
    CASE axis = "lx" -> "Left X" [] axis = "ly" -> "Left Y"
      [] axis = "rx" -> "Right X" [] axis = "ry" -> "Right Y"

\* (the thresholds one axis late: moderate from three axes on)
calculate_drift_severity_late(detected_axes) ==
    IF Cardinality(detected_axes) = 0 THEN "none"
    ELSE IF Cardinality(detected_axes) <= 2 THEN "mild"
    ELSE IF Cardinality(detected_axes) = 3 THEN "moderate"
    ELSE "severe"

calculate_drift_severity(detected_axes) ==
    IF Cardinality(detected_axes) = 0 THEN "none"
    ELSE IF Cardinality(detected_axes) = 1 THEN "mild"
    ELSE IF Cardinality(detected_axes) = 2 THEN "moderate"
    ELSE "severe"

\* center_deviation > 8, with avg_value = sum / len
IsConsistentlyOff(samples) ==
    Abs(SeqSum(samples) - ExpectedCenter * Len(samples)) > 8 * Len(samples)

\* range_value < 6
IsStable(samples) == SeqMax(samples) - SeqMin(samples) < 6

\* (at least 80% instead of more than 80%)
IsConsistentDirectionAtLeast(samples) ==
    5 * Max(CountAbove(samples, ExpectedCenter), CountBelow(samples, ExpectedCenter))
        >= 4 * Len(samples)

\* max(samples_above_center, samples_below_center) > len(samples) * 0.8
IsConsistentDirection(samples) ==
    LET above == CountAbove(samples, ExpectedCenter)
        below == CountBelow(samples, ExpectedCenter)
    IN  5 * Max(above, below) > 4 * Len(samples)

AxisHasDrift(samples) ==
    /\ Len(samples) >= MinDriftSamples
    /\ IsConsistentlyOff(samples)
    /\ IsStable(samples) \/ IsConsistentDirection(samples)

analyze_drift_samples(s) ==
    LET flagged == SelectSeq(AxisOrder, LAMBDA a : AxisHasDrift(s.drift_samples[a]))
        drift_axes == [i \in DOMAIN flagged |-> AxisName(flagged[i])]
        detected == s.drift_detected_axes \cup {flagged[i] : i \in DOMAIN flagged}
        has_drift == Len(drift_axes) > 0
        drift_info ==
            [has_drift |-> has_drift,
             drift_axes |-> drift_axes,
             severity |-> IF has_drift THEN calculate_drift_severity(detected)
                          ELSE "none"]
        s1 == Emit([s EXCEPT !.drift_detected_axes = detected],
                   "drift_detected", drift_info)
    IN  [s1 EXCEPT !.drift_samples = [a \in Axes |-> <<>>],
                   !.drift_sample_count = 0]

----------------------------------------------------------------------------
(* InputTranslator._check_for_drift *)

\* (the triggers left out of the activity test)
UserActiveButtonsOnly(hid_report) ==
    hid_report[5] # 0 \/ hid_report[6] # 0

UserActive(hid_report) ==
    \/ hid_report[5] # 0 \/ hid_report[6] # 0
    \/ hid_report[8] > TriggerThreshold \/ hid_report[9] > TriggerThreshold

StickByte(hid_report, axis) ==
    CASE axis = "lx" -> hid_report[1] [] axis = "ly" -> hid_report[2]
      [] axis = "rx" -> hid_report[3] [] axis = "ry" -> hid_report[4]

\* (the window taken as full one sample late)
WindowFullLate(count) == count > DriftWindow

\* if self.drift_sample_count >= 30
WindowFull(count) == count >= DriftWindow

\* (no gate: every call is a sampling step)
DriftGatedNever(s, current_time) == FALSE

\* if current_time - self.last_drift_check < 0.1: return
DriftGated(s, current_time) == current_time - s.last_drift_check < DriftPeriod

check_for_drift(s, hid_report, current_time) ==
    IF ReportLen(hid_report) = 0 \/ ReportLen(hid_report) < MinCalibLen THEN s
    ELSE IF DriftGated(s, current_time) THEN s
    ELSE LET s1 == [s EXCEPT !.last_drift_check = current_time]
         IN  IF UserActive(hid_report)
             THEN [s1 EXCEPT !.drift_sample_count = 0,
                             !.drift_samples = [a \in Axes |-> <<>>]]
             ELSE LET s2 == [s1 EXCEPT
                                !.drift_samples =
                                    [a \in Axes |-> Append(@[a], StickByte(hid_report, a))],
                                !.drift_sample_count = @ + 1]
                  IN  IF WindowFull(s2.drift_sample_count)
                      THEN [analyze_drift_samples(s2) EXCEPT !.drift_check_performed = TRUE]
                      ELSE s2

----------------------------------------------------------------------------
(* InputTranslator.calibrate *)

\* (the centre moved to the middle of the captured range)
calibrate_record_recentre(s, hid_report) ==
    LET table == [a \in Axes |->
                     [min |-> Min(s.calibration_data[a].min, StickByte(hid_report, a)),
                      max |-> Max(s.calibration_data[a].max, StickByte(hid_report, a)),
                      center |-> (Min(s.calibration_data[a].min, StickByte(hid_report, a))
                                  + Max(s.calibration_data[a].max, StickByte(hid_report, a)))
                                 \div 2]]
        s1 == Emit([s EXCEPT !.calibration_data = table],
                   "calibration_updated", table)
    IN  Emit(s1, "joystick_data_updated",
             [a \in Axes |-> StickByte(hid_report, a)])

\* (the entry overwritten with the last sample instead of widened by it)
calibrate_record_overwrite(s, hid_report) ==
    LET table == [a \in Axes |->
                     [s.calibration_data[a] EXCEPT
                         !.min = StickByte(hid_report, a),
                         !.max = StickByte(hid_report, a)]]
        s1 == Emit([s EXCEPT !.calibration_data = table],
                   "calibration_updated", table)
    IN  Emit(s1, "joystick_data_updated",
             [a \in Axes |-> StickByte(hid_report, a)])

\* Lines 85-104: the min/max update and the two live signals.
calibrate_record(s, hid_report) ==
    LET table == [a \in Axes |->
                     [s.calibration_data[a] EXCEPT
                         !.min = Min(@, StickByte(hid_report, a)),
                         !.max = Max(@, StickByte(hid_report, a))]]
        s1 == Emit([s EXCEPT !.calibration_data = table],
                   "calibration_updated", table)
    IN  Emit(s1, "joystick_data_updated",
             [a \in Axes |-> StickByte(hid_report, a)])

\* Lines 106-108: "Check for drift during normal operation (not calibration)"
calibrate_drift_check(s, hid_report, current_time) ==
    IF ~s.is_calibrating
    THEN check_for_drift(s, hid_report, current_time)
    ELSE s

calibrate(s, hid_report, current_time) ==
    IF ReportLen(hid_report) = 0 \/ ReportLen(hid_report) < MinCalibLen THEN s
    ELSE calibrate_drift_check(calibrate_record(s, hid_report),
                               hid_report, current_time)

----------------------------------------------------------------------------
(* InputTranslator.translate *)

\* (the released code 8 taken for a direction: up for every code but 1..7)
DpadFlagsNoRelease(dpad) ==
    LET up    == IF dpad \notin 1..6 THEN 1 ELSE 0
        right == IF dpad = 1 \/ dpad = 2 \/ dpad = 3 THEN 8 ELSE 0
        down  == IF dpad = 3 \/ dpad = 4 \/ dpad = 5 THEN 2 ELSE 0
        left  == IF dpad = 5 \/ dpad = 6 \/ dpad = 7 THEN 4 ELSE 0
    IN  BitOr(BitOr(BitOr(up, right), down), left)

\* The D-pad flags of the direction code in the low nibble of byte 5.
DpadFlags(dpad) ==
    LET up    == IF dpad = 0 \/ dpad = 1 \/ dpad = 7 THEN 1 ELSE 0
        right == IF dpad = 1 \/ dpad = 2 \/ dpad = 3 THEN 8 ELSE 0
        down  == IF dpad = 3 \/ dpad = 4 \/ dpad = 5 THEN 2 ELSE 0
        left  == IF dpad = 5 \/ dpad = 6 \/ dpad = 7 THEN 4 ELSE 0
    IN  BitOr(BitOr(BitOr(up, right), down), left)

\* if byte & mask: wButtons |= flag
SetIf(wButtons, byte, mask, flag) ==
    IF BitAnd(byte, mask) # 0 THEN BitOr(wButtons, flag) ELSE wButtons

FaceButtons(wButtons, buttons) ==
    SetIf(SetIf(SetIf(SetIf(wButtons, buttons, 16, 16384),
                      buttons, 32, 4096),
                buttons, 64, 8192),
          buttons, 128, 32768)

ShoulderButtons(wButtons, misc_buttons) ==
    SetIf(SetIf(wButtons, misc_buttons, 1, 256), misc_buttons, 2, 512)

SpecialButtons(wButtons, misc_buttons) ==
    SetIf(SetIf(SetIf(SetIf(wButtons, misc_buttons, 16, 32),
                      misc_buttons, 32, 16),
                misc_buttons, 64, 64),
          misc_buttons, 128, 128)

\* (no reset: the flags of the previous report stay)
ResetButtonsSticky(wButtons) == wButtons

\* "Reset buttons to avoid sticky inputs": self.xinput_report.wButtons = 0
ResetButtons(wButtons) == 0

DecodeButtons(wButtons, hid_report) ==
    LET buttons == hid_report[5]
        misc_buttons == hid_report[6]
        dpad == BitOr(wButtons, DpadFlags(BitAnd(buttons, 15)))
    IN  SpecialButtons(ShoulderButtons(FaceButtons(dpad, buttons), misc_buttons),
                       misc_buttons)

\* (the throttle passed at exactly 2 s)
BatteryDueInclusive(s, current_time) ==
    current_time - s.last_battery_check >= BatteryPeriod

\* if current_time - self.last_battery_check > 2: ...
BatteryDue(s, current_time) == current_time - s.last_battery_check > BatteryPeriod

\* (the sampler run whether or not an analysis was performed)
DriftCheckDueAlways(s) == s.drift_detection_enabled

\* if self.drift_detection_enabled and not self.drift_check_performed: ...
DriftCheckDue(s) == s.drift_detection_enabled /\ ~s.drift_check_performed

\* if not hid_report or len(hid_report) < 32: return self.xinput_report
TooShortEmptyOnly(hid_report) == ReportLen(hid_report) = 0

TooShort(hid_report) ==
    ReportLen(hid_report) = 0 \/ ReportLen(hid_report) < MinReportLen

\* The result is [self, ret]; ret is "xinput_report" (the persistent object),
\* "None", or the exception that left translate().
translate(s, hid_report, current_time) ==
    IF TooShort(hid_report)
    THEN [self |-> s, ret |-> "xinput_report"]
    ELSE IF s.is_calibrating
    THEN [self |-> calibrate(s, hid_report, current_time), ret |-> "None"]
    ELSE
    LET s1 == IF BatteryDue(s, current_time)
              THEN extract_battery_info(
                       [s EXCEPT !.last_battery_check = current_time], hid_report)
              ELSE s
        s2 == [s1 EXCEPT !.xinput_report.wButtons = ResetButtons(@)]
        lx == normalize_stick(s.calibration_data, hid_report[1], "lx", FALSE)
        ly == normalize_stick(s.calibration_data, hid_report[2], "ly", TRUE)
        rx == normalize_stick(s.calibration_data, hid_report[3], "rx", FALSE)
        ry == normalize_stick(s.calibration_data, hid_report[4], "ry", TRUE)
        s3 == [s2 EXCEPT !.xinput_report.sThumbLX = lx.value]
        s4 == [s3 EXCEPT !.xinput_report.sThumbLY = ly.value]
        s5 == [s4 EXCEPT !.xinput_report.sThumbRX = rx.value]
        s6 == [s5 EXCEPT !.xinput_report.sThumbRY = ry.value]
        s7 == [s6 EXCEPT !.xinput_report.wButtons = DecodeButtons(@, hid_report),
                         !.xinput_report.bLeftTrigger = hid_report[8],
                         !.xinput_report.bRightTrigger = hid_report[9]]
        s8 == IF DriftCheckDue(s7)
              THEN check_for_drift(s7, hid_report, current_time)
              ELSE s7
    IN  IF lx.raised THEN [self |-> s2, ret |-> "ZeroDivisionError"]
        ELSE IF ly.raised THEN [self |-> s3, ret |-> "ZeroDivisionError"]
        ELSE IF rx.raised THEN [self |-> s4, ret |-> "ZeroDivisionError"]
        ELSE IF ry.raised THEN [self |-> s5, ret |-> "ZeroDivisionError"]
        ELSE [self |-> s8, ret |-> "xinput_report"]

----------------------------------------------------------------------------
(* InputTranslator.start_calibration, stop_calibration *)

\* (the table of the previous session kept)
start_calibration_keep_table(s) ==
    [s EXCEPT !.is_calibrating = TRUE,
              !.emitted.calibration_started = @ + 1]

start_calibration(s) ==
    [s EXCEPT !.is_calibrating = TRUE,
              !.calibration_data = SentinelTable,
              !.emitted.calibration_started = @ + 1]

\* (the table cleared when the session ends)
stop_calibration_reset_table(s) ==
    Emit([s EXCEPT !.is_calibrating = FALSE, !.calibration_data = SentinelTable],
         "calibration_finished", SentinelTable)

stop_calibration(s) ==
    Emit([s EXCEPT !.is_calibrating = FALSE],
         "calibration_finished", s.calibration_data)

\* MainWindow._refresh_ui_after_calibration: the consumer's drift reset
refresh_ui_after_calibration(s) ==
    [s EXCEPT !.drift_check_performed = FALSE,
              !.drift_detected_axes = {},
              !.drift_samples = [a \in Axes |-> <<>>],
              !.drift_sample_count = 0]

----------------------------------------------------------------------------
(* The host service (LazyDS4) *)

MaxThreads == 2   \* how many polling threads start() creates in a behaviour

ThreadIds == 1..MaxThreads

\* A polling thread that start() has not created yet.
Unborn == [pc |-> "unborn", wake |-> 0, attempt |-> 0, callee |-> <<>>]

\* LazyDS4.__init__: nothing is held, no thread exists.  The controller is
\* plugged in or not (service.plugged); ui_pc is where the UI thread is in
\* stop().
NewService ==
    [running |-> FALSE, thread |-> 0, loops |-> [i \in ThreadIds |-> Unborn],
     ds4 |-> "None", vigem |-> "None", translator |-> <<>>,
     ui_pc |-> "idle", join_deadline |-> 0, plugged |-> FALSE]

\* The service after start() and a successful _connect_controller() at time
\* t: thread 1 is polling the translator it created.
PollingService(t) ==
    [NewService EXCEPT !.running = TRUE, !.thread = 1,
                       !.loops[1] = [Unborn EXCEPT !.pc = "sleep_108"],
                       !.ds4 = "open", !.vigem = "open", !.translator = <<1, t>>,
                       !.plugged = TRUE]

----------------------------------------------------------------------------
(* The settings manager (SettingsManager).  self.settings and               *)
(* self.default_settings are dicts of category dicts; dict.copy() is        *)
(* shallow, so a copy holds the same category dicts as the original.        *)
(* manager.shared[c] tells that self.settings[c] is the very dict           *)
(* self.default_settings[c]; otherwise self.settings[c] is manager.own[c].  *)

Categories == {"general", "ui"}

KeysOf(c) ==
    IF c = "general" THEN {"polling_rate_ms", "battery_warning_threshold"}
    ELSE {"overlay_opacity"}

\* self.default_settings as __init__ builds it (lines 21-164)
DefaultSettings ==
    [c \in Categories |->
        [k \in KeysOf(c) |->
            CASE k = "polling_rate_ms" -> 1
              [] k = "battery_warning_threshold" -> 20
              [] k = "overlay_opacity" -> 80]]

\* Values the user sets, or the settings file holds
SettingValues == {5, 50}

NoFile == [exists |-> FALSE, data |-> <<>>]

\* The settings file before the manager is constructed: absent, or a JSON
\* object with some of the categories.
Files ==
    {NoFile} \cup
    {[exists |-> TRUE, data |-> [c \in cs |-> [k \in KeysOf(c) |-> v]]] :
        cs \in SUBSET Categories, v \in SettingValues}

\* self.settings, by value
settings_of(m) ==
    [c \in Categories |->
        IF m.shared[c] THEN m.default_settings[c] ELSE m.own[c]]

\* save_settings: json.dump(settings, f)
save_settings(m, data) == [m EXCEPT !.file = [exists |-> TRUE, data |-> data]]

\* _merge_settings on one category dict: result = default.copy(), then the
\* loaded value of every key the default has.
merge_settings(default, loaded) ==
    [k \in DOMAIN default |-> IF k \in DOMAIN loaded THEN loaded[k] ELSE default[k]]

\* load_settings: with a file, _merge_settings(self.default_settings, loaded)
\* (a category the file has is merged into a new dict, one it lacks stays the
\* default's dict); without one, save the defaults and return
\* self.default_settings.copy().
load_settings(m) ==
    IF m.file.exists
    THEN [m EXCEPT
             !.own = [c \in Categories |->
                         IF c \in DOMAIN m.file.data
                         THEN merge_settings(m.default_settings[c], m.file.data[c])
                         ELSE m.default_settings[c]],
             !.shared = [c \in Categories |-> c \notin DOMAIN m.file.data]]
    ELSE save_settings([m EXCEPT !.shared = [c \in Categories |-> TRUE]],
                       m.default_settings)

\* SettingsManager.__init__ with the settings file as it is found;
\* manager.original keeps the defaults as they were built.
NewManager(file) ==
    load_settings(
        [default_settings |-> DefaultSettings, own |-> DefaultSettings,
         shared |-> [c \in Categories |-> FALSE], file |-> file,
         original |-> DefaultSettings,
         last_call |-> [op |-> "__init__", category |-> "None"]])

\* set(category, key, value): self.settings[category][key] = value, saved
set(m, category, key, value) ==
    LET m1 == IF m.shared[category]
              THEN [m EXCEPT !.default_settings[category][key] = value]
              ELSE [m EXCEPT !.own[category][key] = value]
    IN  save_settings(m1, settings_of(m1))

\* reset_to_defaults(category): self.settings[category] =
\* self.default_settings[category].copy(), or for all categories
\* self.settings = self.default_settings.copy(); saved.
reset_to_defaults(m, category) ==
    LET m1 == IF category = "None"
              THEN [m EXCEPT !.own = m.default_settings,
                             !.shared = [c \in Categories |-> TRUE]]
              ELSE [m EXCEPT !.own[category] = m.default_settings[category],
                             !.shared[category] = FALSE]
    IN  save_settings(m1, settings_of(m1))

----------------------------------------------------------------------------
(* The state machine *)

\* InputTranslator.__init__
NewTranslator ==
    [xinput_report |-> NewXInputReport,
     last_battery_check |-> 0,
     is_calibrating |-> FALSE,
     calibration_data |-> SentinelTable,
     drift_detection_enabled |-> TRUE,
     drift_sample_count |-> 0,
     drift_samples |-> [a \in Axes |-> <<>>],
     drift_detected_axes |-> {},
     last_drift_check |-> 0,
     drift_check_performed |-> FALSE,
     emitted |-> NoSignals]

\* No call is in progress on either thread: the polling thread is between
\* two polls, the UI thread is in its event loop.
NoThreads ==
    [poll_pc |-> "idle", ui_pc |-> "idle", hid_report |-> EmptyReport,
     arrived |-> 0, start_begin |-> -1, wake |-> 0, sent |-> FALSE]

\* The record of a call: the operation, its report, and the sample count
\* the drift sampler held and the Calibrating flag when the call began.
Call(op, hid_report) ==
    [op |-> op, report |-> hid_report, count_before |-> drift_sample_count,
     calibrating_before |-> is_calibrating]

\* The translator is in state s at time t, the service in state svc, the
\* settings manager in state mgr.
InitHost(s, t, svc, mgr) ==
    /\ xinput_report = s.xinput_report
    /\ last_battery_check = s.last_battery_check
    /\ is_calibrating = s.is_calibrating
    /\ calibration_data = s.calibration_data
    /\ drift_detection_enabled = s.drift_detection_enabled
    /\ drift_sample_count = s.drift_sample_count
    /\ drift_samples = s.drift_samples
    /\ drift_detected_axes = s.drift_detected_axes
    /\ last_drift_check = s.last_drift_check
    /\ drift_check_performed = s.drift_check_performed
    /\ emitted = NoSignals
    /\ ret = "none yet"
    /\ last_call = [op |-> "__init__", report |-> EmptyReport, count_before |-> 0,
                    calibrating_before |-> FALSE]
    /\ session_samples = [a \in Axes |-> {}]
    /\ analysed_samples = [a \in Axes |-> <<>>]
    /\ threads = NoThreads
    /\ service = svc
    /\ manager = mgr
    /\ now = t

\* The translator is in state s at time t, in a service that polls it.
InitFrom(s, t) == InitHost(s, t, PollingService(StartTime), NewManager(NoFile))

Init == InitFrom(NewTranslator, StartTime)

\* The wall clock advances by d units, up to limit units after StartTime.
Advance(d, limit) ==
    /\ now + d <= StartTime + limit
    /\ now' = now + d
    /\ UNCHANGED <<xinput_report, last_battery_check, is_calibrating,
                   calibration_data, drift_detection_enabled, drift_sample_count,
                   drift_samples, drift_detected_axes, last_drift_check,
                   drift_check_performed, emitted, ret, last_call, session_samples,
                   analysed_samples, threads, service, manager>>

Tick == Advance(1, MaxTicks)

\* The samples calibrate() records for a report, per axis.
Recorded(hid_report) ==
    IF is_calibrating /\ ReportLen(hid_report) >= MinReportLen
    THEN [a \in Axes |-> session_samples[a] \cup {StickByte(hid_report, a)}]
    ELSE session_samples

\* The buffers _analyze_drift_samples ran on, if this call ran it: the
\* buffers before the call with this report's sample appended.
Analysed(hid_report, after) ==
    IF after.emitted.drift_detected # <<>>
    THEN [a \in Axes |-> Append(drift_samples[a], StickByte(hid_report, a))]
    ELSE analysed_samples

Translate(hid_report) ==
    \E result \in {translate(Self, hid_report, now)} :
        /\ SetSelf(result.self)
        /\ ret' = result.ret
        /\ last_call' = Call("translate", hid_report)
        /\ session_samples' = Recorded(hid_report)
        /\ analysed_samples' = Analysed(hid_report, result.self)
        /\ UNCHANGED <<threads, service, manager, now>>

StartCalibration ==
    /\ SetSelf(start_calibration(Self))
    /\ last_call' = Call("start_calibration", EmptyReport)
    /\ session_samples' = [a \in Axes |-> {}]
    /\ UNCHANGED <<ret, analysed_samples, threads, service, manager, now>>

StopCalibration ==
    /\ SetSelf(stop_calibration(Self))
    /\ last_call' = Call("stop_calibration", EmptyReport)
    /\ UNCHANGED <<ret, session_samples, analysed_samples, threads,
                   service, manager, now>>

RefreshUiAfterCalibration ==
    /\ SetSelf(refresh_ui_after_calibration(Self))
    /\ last_call' = Call("refresh_ui_after_calibration", EmptyReport)
    /\ UNCHANGED <<ret, session_samples, analysed_samples, threads,
                   service, manager, now>>

----------------------------------------------------------------------------
(* The translator under the calls its host makes: polling, calibration      *)
(* start/stop from the dialog, the drift reset after a calibration.         *)

ShortReport == Report(10, 200, 60, 128, 128, 40, 1, 255, 0, 0, 0)
RestReport == Report(FullReportLen, 128, 128, 128, 128, 0, 0, 0, 0, 0, 0)
LowReport == Report(FullReportLen, 20, 230, 128, 100, 8, 0, 0, 0, 77, 0)
HighReport == Report(FullReportLen, 230, 20, 128, 200, 40, 1, 255, 11, 0, 21)

Reports == {EmptyReport, ShortReport, RestReport, LowReport, HighReport}

Next ==
    \/ Tick
    \/ \E r \in Reports : Translate(r)
    \/ StartCalibration
    \/ StopCalibration
    \/ RefreshUiAfterCalibration

Spec == Init /\ [][Next]_vars

----------------------------------------------------------------------------
(* Properties of translate() under Spec *)

\* A step that is a call of translate().
TranslateStep == last_call'.op = "translate" /\ now' = now

\* C1: translate() of an empty report or of one shorter than 32 bytes, in
\* any translator state, raises nothing, returns the persistent
\* XInputReport and leaves every field of it as it was before the call.
C1_ShortReportKeepsOutput ==
    [][(TranslateStep /\ ReportLen(last_call'.report) < MinReportLen)
        => (ret' = "xinput_report" /\ xinput_report' = xinput_report)]_vars

\* A short, non-empty report was given to a translator whose output report
\* holds buttons and a deflected stick.
C1_Witness ==
    /\ last_call.op = "translate"
    /\ ReportLen(last_call.report) \in 1..(MinReportLen - 1)
    /\ ret = "xinput_report"
    /\ xinput_report.wButtons # 0
    /\ xinput_report.sThumbLX # 0

\* C2: while the translator is Calibrating, translate() returns None for
\* every report, whatever its content or length.
C2_CalibratingReturnsNone ==
    [][(TranslateStep /\ is_calibrating) => ret' = "None"]_vars

----------------------------------------------------------------------------
(* Calibration sessions and the stick normalizer: the dialog starts and     *)
(* stops sessions while the loop polls reports whose stick bytes sweep      *)
(* CalibBytes.  The D-pad is released (code 8) in these reports.            *)

MaxSessionSamples == 2   \* distinct stick positions met in one session

CalibBytes == {0, 20, 127, 128, 129, 150, 230}

\* One position of the left stick: LeftX at v, LeftY mirrored; the right
\* stick is at rest.
CalibReport(v) ==
    Report(FullReportLen, v, 255 - v, 128, 128, 8, 0, 0, 0, 0, 0)

CalibTranslate(v) ==
    /\ is_calibrating =>
          \/ v \in session_samples["lx"]
          \/ Cardinality(session_samples["lx"]) < MaxSessionSamples
    /\ Translate(CalibReport(v))

NextCalib ==
    \/ \E v \in CalibBytes : CalibTranslate(v)
    \/ StartCalibration
    \/ StopCalibration

SpecCalib == Init /\ [][NextCalib]_vars

\* C3: for every raw byte, axis and inversion, and every calibration entry
\* that start/calibrate/stop can produce, _normalize_stick divides by no
\* zero and returns an integer in [-32767, 32767].
C3_NormalizeInRange ==
    \A a \in Axes, v \in Byte, invert \in BOOLEAN :
        LET n == normalize_stick(calibration_data, v, a, invert)
        IN  ~n.raised /\ n.value \in (-FullScale)..FullScale

\* A session that saw only byte 128 left LeftX at min = max = 128 (both
\* ranges 0 before the guard); the next byte translated is off centre.
C3_Witness ==
    /\ last_call.op = "translate"
    /\ ret = "xinput_report"
    /\ calibration_data["lx"].min = 128 /\ calibration_data["lx"].max = 128
    /\ xinput_report.sThumbLX = FullScale

\* C6: normalize(128, axis, calibration, invert = false) is 0 for every
\* axis and every calibration entry.
C6_CenterMapsToZero ==
    \A a \in Axes :
        LET n == normalize_stick(calibration_data, 128, a, FALSE)
        IN  ~n.raised /\ n.value = 0

\* Byte 128 was translated on LeftX under a table captured wholly above
\* the centre (min > 128).
C6_Witness ==
    /\ last_call.op = "translate"
    /\ ret = "xinput_report"
    /\ last_call.report[1] = 128
    /\ calibration_data["lx"].min > 128
    /\ calibration_data["lx"].max > calibration_data["lx"].min
    /\ xinput_report.sThumbLX = 0

\* C7: for every calibration entry with min < 128 < max and all raw bytes
\* x <= y, normalize(x, invert = false) <= normalize(y, invert = false).
C7_Monotonic ==
    \A a \in Axes :
        (calibration_data[a].min < 128 /\ calibration_data[a].max > 128) =>
            LET f == [v \in Byte |->
                         normalize_stick(calibration_data, v, a, FALSE).value] @@ <<>>
            IN  \A x \in Byte : \A y \in x..255 : f[x] <= f[y]

\* Under a table with min < 128 < max a byte between centre and max was
\* translated to a value strictly inside the positive half.
C7_Witness ==
    /\ last_call.op = "translate"
    /\ ret = "xinput_report"
    /\ calibration_data["lx"].min < 128 /\ calibration_data["lx"].max > 128
    /\ last_call.report[1] > 128
    /\ last_call.report[1] < calibration_data["lx"].max
    /\ xinput_report.sThumbLX > 0 /\ xinput_report.sThumbLX < FullScale

SetMin(S) == CHOOSE x \in S : \A y \in S : x <= y
SetMax(S) == CHOOSE x \in S : \A y \in S : x >= y

\* C8: after a calibration session whose samples on an axis have minimum
\* m < 128 and maximum M > 128, normalize without inversion gives -32767
\* for byte m and 32767 for byte M on that axis.
C8_SessionExtremesFullScale ==
    \A a \in Axes :
        (/\ ~is_calibrating
         /\ session_samples[a] # {}
         /\ SetMin(session_samples[a]) < 128
         /\ SetMax(session_samples[a]) > 128) =>
            /\ normalize_stick(calibration_data, SetMin(session_samples[a]), a, FALSE)
                   = [raised |-> FALSE, value |-> -FullScale]
            /\ normalize_stick(calibration_data, SetMax(session_samples[a]), a, FALSE)
                   = [raised |-> FALSE, value |-> FullScale]

\* The session saw 20 and 230 on LeftX, was stopped, and byte 20 was then
\* translated to -32767.
C8_Witness ==
    /\ ~is_calibrating
    /\ session_samples["lx"] = {20, 230}
    /\ last_call.op = "translate"
    /\ last_call.report[1] = 20
    /\ xinput_report.sThumbLX = -FullScale

\* The table a session that recorded session_samples leaves behind.
SessionTable ==
    [a \in Axes |->
        IF session_samples[a] = {}
        THEN [min |-> 255, max |-> 0, center |-> 128]
        ELSE [min |-> SetMin(session_samples[a]),
              max |-> SetMax(session_samples[a]), center |-> 128]]

\* C16: after stop_calibration() the calibration table holds the min/max
\* captured during that session; no translate() call outside calibration
\* changes it, and the first translate() after the stop normalizes the four
\* sticks with that table, not with the sentinels.
C16_StoppedTableFrozen ==
    [][/\ last_call'.op = "stop_calibration" =>
              ~is_calibrating' /\ calibration_data' = SessionTable'
       /\ (TranslateStep /\ ~is_calibrating) =>
              calibration_data' = calibration_data
       /\ (/\ TranslateStep
           /\ ReportLen(last_call'.report) >= MinReportLen
           /\ last_call.op = "stop_calibration") =>
              LET r == last_call'.report
                  out == xinput_report'
              IN  /\ ret' = "xinput_report"
                  /\ out.sThumbLX = normalize_stick(SessionTable, r[1], "lx", FALSE).value
                  /\ out.sThumbLY = normalize_stick(SessionTable, r[2], "ly", TRUE).value
                  /\ out.sThumbRX = normalize_stick(SessionTable, r[3], "rx", FALSE).value
                  /\ out.sThumbRY = normalize_stick(SessionTable, r[4], "ry", TRUE).value]_vars

\* The session saw 20 and 230 on LeftX and was stopped; the translate()
\* right after the stop mapped byte 150 to 22/102 of full scale (with the
\* sentinels it would be full scale).
C16_Witness ==
    /\ last_call.op = "translate"
    /\ ~last_call.calibrating_before /\ ~is_calibrating
    /\ session_samples["lx"] = {20, 230}
    /\ calibration_data["lx"] = [min |-> 20, max |-> 230, center |-> 128]
    /\ last_call.report[1] = 150
    /\ xinput_report.sThumbLX = 7067

\* C17 as first stated: each axis's entry is either the unset sentinel
\* (min = 255, max = 0) or satisfies min <= center <= max with center = 128.
C17_MinCenterMax ==
    \A a \in Axes :
        \/ calibration_data[a] = [min |-> 255, max |-> 0, center |-> 128]
        \/ /\ calibration_data[a].center = 128
           /\ calibration_data[a].min <= 128
           /\ 128 <= calibration_data[a].max

\* C17: each axis's entry is either the unset sentinel (min = 255, max = 0,
\* center = 128) or, once at least one sample has been recorded for it, has
\* center = 128 and min <= max, min and max being the smallest and the
\* largest byte recorded in the session; min <= 128 <= max holds exactly
\* when the recorded bytes are not all on one side of 128.
C17_MinMaxOfSession ==
    \A a \in Axes :
        LET entry == calibration_data[a]
            seen == session_samples[a]
        IN  /\ entry.center = 128
            /\ seen = {} => entry.min = 255 /\ entry.max = 0
            /\ seen # {} =>
                  /\ entry.min <= entry.max
                  /\ entry.min = SetMin(seen) /\ entry.max = SetMax(seen)
                  /\ (entry.min <= 128 /\ 128 <= entry.max)
                        <=> ~((\A v \in seen : v > 128) \/ (\A v \in seen : v < 128))

\* A session recorded 150 and 230 on LeftX: the entry lies wholly above the
\* centre.
C17_Witness ==
    /\ last_call.op = "translate"
    /\ is_calibrating
    /\ session_samples["lx"] = {150, 230}
    /\ calibration_data["lx"] = [min |-> 150, max |-> 230, center |-> 128]

\* C18: start_calibration(), called while Idle or while already
\* Calibrating, leaves the translator Calibrating with all four entries at
\* (min = 255, max = 0, center = 128) and signals calibration-started
\* exactly once.
C18_StartResetsTable ==
    [][last_call'.op = "start_calibration" =>
          /\ is_calibrating'
          /\ calibration_data' =
                 [a \in Axes |-> [min |-> 255, max |-> 0, center |-> 128]]
          /\ emitted'.calibration_started = 1]_vars

\* start_calibration() was called while already Calibrating.
C18_Witness ==
    /\ last_call.op = "start_calibration"
    /\ last_call.calibrating_before
    /\ is_calibrating
    /\ calibration_data = SentinelTable
    /\ emitted.calibration_started = 1

----------------------------------------------------------------------------
(* The report decoder: the loop polls reports that sweep the two button     *)
(* bytes and the trigger bytes of a running (not calibrating) translator.   *)

TriggerBytes == {0, 10, 11, 255}

ButtonReport(b5, b6, lt, rt) ==
    Report(FullReportLen, 128, 128, 128, 128, b5, b6, lt, rt, 0, 0)

\* Byte 6 with every combination of the bits translate() reads, and two
\* values with the L2/R2 bits (0x04, 0x08) it does not read.
MiscBytes == {b \in Byte : (b \div 4) % 4 = 0} \cup {12, 255}

DecodeReports ==
    {ButtonReport(b5, 0, 0, 0) : b5 \in Byte}
        \cup {ButtonReport(8, b6, 0, 0) : b6 \in MiscBytes}
        \cup {ButtonReport(241, 243, lt, rt) :
                 lt \in TriggerBytes, rt \in TriggerBytes}

NextDecode == \E r \in DecodeReports : Translate(r)

SpecDecode == Init /\ [][NextDecode]_vars

\* A step that is translate() of a full-length report outside calibration.
DecodeStep ==
    /\ TranslateStep
    /\ ReportLen(last_call'.report) >= MinReportLen
    /\ ~is_calibrating

HasFlag(word, flag) == (word \div flag) % 2 = 1

\* C4: after translate() of a full-length report outside calibration the
\* D-pad flags depend only on the low 4 bits of byte 5: Up (0x0001) iff the
\* code is in {0,1,7}, Right (0x0008) iff in {1,2,3}, Down (0x0002) iff in
\* {3,4,5}, Left (0x0004) iff in {5,6,7}; codes 8..15 leave all four clear.
C4_DpadTable ==
    [][DecodeStep =>
        LET code == last_call'.report[5] % 16
            w == xinput_report'.wButtons
        IN  /\ HasFlag(w, 1) <=> code \in {0, 1, 7}
            /\ HasFlag(w, 8) <=> code \in {1, 2, 3}
            /\ HasFlag(w, 2) <=> code \in {3, 4, 5}
            /\ HasFlag(w, 4) <=> code \in {5, 6, 7}
            /\ code \in 8..15 =>
                  ~(HasFlag(w, 1) \/ HasFlag(w, 2) \/ HasFlag(w, 4) \/ HasFlag(w, 8))]_vars

\* Code 1 (north-east) was decoded, with face-button bits set in the high
\* nibble of the same byte, to Up and Right only.
C4_Witness ==
    /\ last_call.op = "translate"
    /\ ret = "xinput_report"
    /\ last_call.report[5] % 16 = 1
    /\ last_call.report[5] >= 16
    /\ HasFlag(xinput_report.wButtons, 1) /\ HasFlag(xinput_report.wButtons, 8)
    /\ ~HasFlag(xinput_report.wButtons, 2) /\ ~HasFlag(xinput_report.wButtons, 4)

FlagIf(byte, mask, flag) == IF (byte \div mask) % 2 = 1 THEN flag ELSE 0

ExpectedDpad(code) ==
    (IF code \in {0, 1, 7} THEN 1 ELSE 0) + (IF code \in {1, 2, 3} THEN 8 ELSE 0)
        + (IF code \in {3, 4, 5} THEN 2 ELSE 0) + (IF code \in {5, 6, 7} THEN 4 ELSE 0)

ExpectedButtons(b5, b6) ==
    ExpectedDpad(b5 % 16)
        + FlagIf(b5, 16, 16384) + FlagIf(b5, 32, 4096)
        + FlagIf(b5, 64, 8192) + FlagIf(b5, 128, 32768)
        + FlagIf(b6, 1, 256) + FlagIf(b6, 2, 512)
        + FlagIf(b6, 16, 32) + FlagIf(b6, 32, 16)
        + FlagIf(b6, 64, 64) + FlagIf(b6, 128, 128)

\* C5: after translate() of a full-length report outside calibration the
\* buttons field is exactly the D-pad flags plus X=0x4000 iff byte5&0x10,
\* A=0x1000 iff byte5&0x20, B=0x2000 iff byte5&0x40, Y=0x8000 iff byte5&0x80,
\* LEFT_SHOULDER=0x0100 iff byte6&0x01, RIGHT_SHOULDER=0x0200 iff byte6&0x02,
\* BACK=0x0020 iff byte6&0x10, START=0x0010 iff byte6&0x20, LEFT_THUMB=0x0040
\* iff byte6&0x40, RIGHT_THUMB=0x0080 iff byte6&0x80; the triggers are bytes
\* 8 and 9; nothing of the previous report's flags survives.
C5_ButtonsExact ==
    [][DecodeStep =>
        /\ xinput_report'.wButtons =
              ExpectedButtons(last_call'.report[5], last_call'.report[6])
        /\ xinput_report'.bLeftTrigger = last_call'.report[8]
        /\ xinput_report'.bRightTrigger = last_call'.report[9]]_vars

\* All four face buttons with the D-pad north-east, both shoulders, Share,
\* Options, both thumb clicks and both triggers were decoded (0xF3F9).
C5_Witness ==
    /\ last_call.op = "translate"
    /\ ret = "xinput_report"
    /\ last_call.report[5] = 241 /\ last_call.report[6] = 243
    /\ xinput_report.wButtons = 62457
    /\ xinput_report.bLeftTrigger = 255
    /\ xinput_report.bRightTrigger = 11

----------------------------------------------------------------------------
(* The battery extractor: the loop polls reports that sweep byte 30 and     *)
(* byte 12, and the wall clock passes the 2 s throttle in between.          *)

MaxBatteryWaits == 1   \* how many throttle periods the wall clock passes

\* Byte 30 with every combination of the bits the extractor reads (0x1F),
\* and values with the bits it does not read.
PrimaryBytes == 0..31 \cup {32, 149, 240, 255}
AlternateBytes == 0..110 \cup {200, 255}

BatteryReport(b12, b30) ==
    Report(FullReportLen, 128, 128, 128, 128, 8, 0, 0, 0, b12, b30)

BatteryReports ==
    {BatteryReport(77, b30) : b30 \in PrimaryBytes}
        \cup {BatteryReport(b12, 0) : b12 \in AlternateBytes}
        \cup {BatteryReport(0, 21)}

BatteryWait ==
    Advance(BatteryPeriod + 1, MaxBatteryWaits * (BatteryPeriod + 1))

NextBattery ==
    \/ BatteryWait
    \/ \E r \in BatteryReports : Translate(r)

SpecBattery == Init /\ [][NextBattery]_vars

ExpectedBattery(b12, b30) ==
    IF b30 # 0
    THEN [level |-> IF b30 % 16 <= 10 THEN 10 * (b30 % 16) ELSE b30 % 16,
          charging |-> (b30 \div 16) % 2 = 1]
    ELSE IF b12 # 0
    THEN [level |-> IF b12 < 100 THEN b12 ELSE 100, charging |-> FALSE]
    ELSE [level |-> 50, charging |-> FALSE]

\* C9: whenever battery extraction runs on a full-length report (more than
\* 2 s after the previous one) it emits exactly one battery status, with
\* level in 0..100: byte 30 nonzero gives charging = bit 4 and level = 10 x
\* the low nibble when the nibble is <= 10, else the nibble; byte 30 zero
\* and byte 12 nonzero gives min(100, byte 12), not charging; both zero
\* gives 50, not charging.
C9_BatteryStatus ==
    [][(DecodeStep /\ now - last_battery_check > BatteryPeriod) =>
        /\ emitted'.battery_status_updated =
              <<ExpectedBattery(last_call'.report[12], last_call'.report[30])>>
        /\ emitted'.battery_status_updated[1].level \in 0..100]_vars

\* Byte 30 = 0x15 was extracted as level 50, charging, on a translator that
\* had extracted before.
C9_Witness ==
    /\ last_call.op = "translate"
    /\ last_call.report[30] = 21
    /\ emitted.battery_status_updated = <<[level |-> 50, charging |-> TRUE]>>
    /\ last_battery_check > StartTime

----------------------------------------------------------------------------
(* The drift detector: the translator has been polled DriftWindow - 1 times *)
(* 100 ms apart with idle reports (no button, triggers at rest), the left   *)
(* stick resting at x for the first k polls and at y afterwards; the loop   *)
(* goes on polling.                                                         *)

MaxDriftTicks == 1   \* how far the wall clock advances after the prefill

DriftBytes == {100, 128, 136, 137, 138, 142, 250}
Splits == {5, 6, 15}
OtherRest == {128, 150}

IdleReport(lx, ly, rx, ry) ==
    Report(FullReportLen, lx, ly, rx, ry, 0, 0, 0, 0, 0, 0)

PressedReport == Report(FullReportLen, 142, 128, 128, 128, 40, 0, 0, 0, 0, 0)

PrefillReports(x, y, k, ly, ry) ==
    [i \in 1..(DriftWindow - 1) |->
        IdleReport(IF i <= k THEN x ELSE y, ly, 128, ry)]

\* translate() called on each report in turn, 100 ms apart, from time t;
\* an exception that leaves translate() ends the polling.
RECURSIVE RunPolls(_, _, _)
RunPolls(run, reports, t) ==
    IF reports = <<>> \/ run.ret = "ZeroDivisionError" THEN run
    ELSE RunPolls(translate([run.self EXCEPT !.emitted = NoSignals],
                            Head(reports), t),
                  Tail(reports), t + 1)

InitAfter(reports) ==
    \E before \in {RunPolls([self |-> NewTranslator, ret |-> "none yet"],
                            SubSeq(reports, 1, Len(reports) - 1), StartTime)} :
    \E run \in {RunPolls(before, SubSeq(reports, Len(reports), Len(reports)),
                         StartTime + Len(reports) - 1)} :
        /\ xinput_report = run.self.xinput_report
        /\ last_battery_check = run.self.last_battery_check
        /\ is_calibrating = run.self.is_calibrating
        /\ calibration_data = run.self.calibration_data
        /\ drift_detection_enabled = run.self.drift_detection_enabled
        /\ drift_sample_count = run.self.drift_sample_count
        /\ drift_samples = run.self.drift_samples
        /\ drift_detected_axes = run.self.drift_detected_axes
        /\ last_drift_check = run.self.last_drift_check
        /\ drift_check_performed = run.self.drift_check_performed
        /\ emitted = run.self.emitted
        /\ ret = run.ret
        /\ last_call = [op |-> "translate", report |-> reports[Len(reports)],
                        count_before |-> before.self.drift_sample_count,
                        calibrating_before |-> before.self.is_calibrating]
        /\ session_samples = [a \in Axes |-> {}]
        /\ analysed_samples = [a \in Axes |-> <<>>]
        /\ threads = NoThreads
        /\ service = PollingService(StartTime)
        /\ manager = NewManager(NoFile)
        /\ now = StartTime + Len(reports) - 1

InitDrift ==
    \E x \in DriftBytes, y \in DriftBytes, k \in Splits, other \in OtherRest :
        InitAfter(PrefillReports(x, y, k, other, other))

DriftTick == Advance(1, DriftWindow - 2 + MaxDriftTicks)

DriftReports ==
    {IdleReport(lx, 128, 128, 128) : lx \in DriftBytes}
        \cup {IdleReport(142, 150, 128, 150), PressedReport}

NextDrift ==
    \/ DriftTick
    \/ \E r \in DriftReports : Translate(r)

SpecDrift == InitDrift /\ [][NextDrift]_vars


\* The claimed criterion on one axis's samples: |mean - 128| > 8 and
\* (max - min < 6 or more than 80% strictly on one side of 128).
ClaimedDrift(samples) ==
    LET n == Len(samples)
        values == {samples[i] : i \in 1..n}
        above == Cardinality({i \in 1..n : samples[i] > 128})
        below == Cardinality({i \in 1..n : samples[i] < 128})
    IN  /\ Abs(SeqSum(samples) - 128 * n) > 8 * n
        /\ \/ SetMax(values) - SetMin(values) < 6
           \/ 10 * above > 8 * n
           \/ 10 * below > 8 * n

ClaimedAxisName == [lx |-> "Left X", ly |-> "Left Y", rx |-> "Right X", ry |-> "Right Y"]

\* 30 samples with mean 140 and range 4 on LeftX, the other axes at 128.
LeftXDriftCase(buffers) ==
    /\ Len(buffers["lx"]) = 30
    /\ SeqSum(buffers["lx"]) = 140 * 30
    /\ SeqMax(buffers["lx"]) - SeqMin(buffers["lx"]) = 4
    /\ \A a \in Axes \ {"lx"} : \A i \in DOMAIN buffers[a] : buffers[a][i] = 128

\* 30 samples, all 128 on every axis.
AllCentredCase(buffers) ==
    \A a \in Axes :
        Len(buffers[a]) = 30 /\ \A i \in DOMAIN buffers[a] : buffers[a][i] = 128

----------------------------------------------------------------------------
(* The idle sampler across its windows: the loop has polled idle reports    *)
(* 100 ms apart with the sticks resting where the prefill puts them, one    *)
(* sample short of a full window, either on a new translator or after a     *)
(* first window was analysed and the main window reset the drift state.     *)
(* The loop goes on polling while the dialog starts and stops calibration   *)
(* and the main window resets the drift state.                              *)

MaxSamplingTicks == 2   \* how far the wall clock advances after the prefill

RestBytes == {128, 142}

Repeat(hid_report, n) == [i \in 1..n |-> hid_report]

\* The first window of the second kind of prefill: LeftX and LeftY rest off
\* centre, so its analysis flags two axes.
FirstWindowReport == IdleReport(142, 142, 128, 128)

\* The wall clock when the prefill ends.
PrefillEnd == StartTime + 2 * DriftWindow - 2

FirstWindowRun(idle) ==
    RunPolls([self |-> NewTranslator, ret |-> "none yet"],
             Repeat(idle, DriftWindow - 1), StartTime + DriftWindow)

SecondWindowRun(idle) ==
    LET first == RunPolls([self |-> NewTranslator, ret |-> "none yet"],
                          Repeat(FirstWindowReport, DriftWindow), StartTime)
        reset == [self |-> refresh_ui_after_calibration(first.self),
                  ret |-> first.ret]
    IN  RunPolls(reset, Repeat(idle, DriftWindow - 1), StartTime + DriftWindow)

InitSampling ==
    \E lx \in RestBytes, ly \in RestBytes, rx \in RestBytes, ry \in RestBytes :
    \E second \in BOOLEAN :
    \E run \in {IF second THEN SecondWindowRun(IdleReport(lx, ly, rx, ry))
                ELSE FirstWindowRun(IdleReport(lx, ly, rx, ry))} :
        InitFrom(run.self, PrefillEnd)

SamplingTick == Advance(1, 2 * DriftWindow - 2 + MaxSamplingTicks)

\* No button bit set, D-pad released (code 8), triggers at rest.
DpadReleasedReport == Report(FullReportLen, 128, 128, 128, 128, 8, 0, 0, 0, 0, 0)
\* Only the right trigger, one above the threshold.
TriggerReport == Report(FullReportLen, 128, 128, 128, 128, 0, 0, 0, 11, 0, 0)
\* Both triggers at the threshold.
ThresholdReport == Report(FullReportLen, 128, 128, 128, 128, 0, 0, 10, 10, 0, 0)
\* Only L1 (byte 6).
ShoulderReport == Report(FullReportLen, 128, 128, 128, 128, 0, 1, 0, 0, 0, 0)

SamplingReports ==
    {RestReport, DpadReleasedReport, PressedReport, TriggerReport,
     ThresholdReport, ShoulderReport, ShortReport}

NextSampling ==
    \/ SamplingTick
    \/ \E r \in SamplingReports : Translate(r)
    \/ StartCalibration
    \/ StopCalibration
    \/ RefreshUiAfterCalibration

SpecSampling == InitSampling /\ [][NextSampling]_vars

\* A step that is translate() of a full-length report outside calibration
\* which reaches the sampler and passes its 100 ms gate.
EligibleStep ==
    /\ DecodeStep
    /\ drift_detection_enabled /\ ~drift_check_performed
    /\ now - last_drift_check >= DriftPeriod

BuffersEmpty(samples, count) ==
    count = 0 /\ \A a \in Axes : samples[a] = <<>>

\* The step appended the report's stick bytes, one per axis (and, when that
\* filled the window, analysed the buffers it had appended to).
SampleAppended ==
    LET appended == [a \in Axes |->
                        Append(drift_samples[a], StickByte(last_call'.report, a))]
    IN  \/ drift_samples' = appended /\ drift_sample_count' = drift_sample_count + 1
        \/ emitted'.drift_detected # <<>> /\ analysed_samples' = appended

\* A face button (high nibble of byte 5) or any button of byte 6.
ButtonPressed(hid_report) == hid_report[5] \div 16 # 0 \/ hid_report[6] # 0
\* A D-pad direction: codes 0..7 of the low nibble of byte 5; 8 is released.
DpadPressed(hid_report) == hid_report[5] % 16 \in 0..7
TriggerPressed(hid_report) == hid_report[8] > 10 \/ hid_report[9] > 10

\* C11: on an eligible sampling tick outside calibration the user is active
\* iff a button, a D-pad direction or a trigger above 10 is pressed, and
\* then the buffers are discarded; a report with no button, the D-pad
\* released (code 8) and both triggers <= 10 is idle, and the raw byte of
\* each of the four axes is appended to its buffer.
C11_IdleIffNothingPressed ==
    [][EligibleStep =>
        IF \/ ButtonPressed(last_call'.report)
           \/ DpadPressed(last_call'.report)
           \/ TriggerPressed(last_call'.report)
        THEN BuffersEmpty(drift_samples', drift_sample_count')
        ELSE SampleAppended]_vars

\* C12 as first stated: every translate() call outside calibration, with
\* drift detection enabled and no analysis performed yet, whose report has a
\* button pressed or a trigger byte > 10 leaves all four buffers empty and
\* the sample count 0.
C12_ActivityResetsOnEveryCall ==
    [][(/\ TranslateStep
        /\ ~is_calibrating
        /\ drift_detection_enabled /\ ~drift_check_performed
        /\ ReportLen(last_call'.report) >= 10
        /\ ButtonPressed(last_call'.report) \/ TriggerPressed(last_call'.report))
       => BuffersEmpty(drift_samples', drift_sample_count')]_vars

\* C12: every translate() call of a full-length report outside calibration,
\* with drift detection enabled and no analysis performed yet, that is made
\* at least 100 ms after the previous sampling step and whose report has a
\* button pressed or a trigger byte > 10 leaves all four buffers empty and
\* the sample count 0.
C12_ActivityResetsOnEligibleTick ==
    [][(/\ EligibleStep
        /\ ButtonPressed(last_call'.report) \/ TriggerPressed(last_call'.report))
       => BuffersEmpty(drift_samples', drift_sample_count')]_vars

\* The right trigger alone, one above the threshold, discarded a window one
\* sample short of full.
C12_Witness ==
    /\ last_call.op = "translate"
    /\ last_call.report = TriggerReport
    /\ last_call.count_before = DriftWindow - 1
    /\ last_drift_check = now
    /\ ~is_calibrating /\ ~drift_check_performed
    /\ BuffersEmpty(drift_samples, drift_sample_count)

\* C13: once a drift analysis has run (drift_check_performed set) no
\* translate() call appends a sample, runs an analysis or emits a drift
\* event, and only the consumer's reset clears drift_check_performed; a
\* drift event is emitted only by a call that finds the flag clear and sets
\* it, so between two resets there is at most one.
C13_OneAnalysisUntilReset ==
    [][/\ (TranslateStep /\ drift_check_performed) =>
              /\ drift_samples' = drift_samples
              /\ drift_sample_count' = drift_sample_count
              /\ analysed_samples' = analysed_samples
              /\ emitted'.drift_detected = <<>>
       /\ (drift_check_performed /\ ~drift_check_performed') =>
              last_call'.op = "refresh_ui_after_calibration"
       /\ (TranslateStep /\ emitted'.drift_detected # <<>>) =>
              /\ Len(emitted'.drift_detected) = 1
              /\ ~drift_check_performed /\ drift_check_performed']_vars

\* An idle report was translated outside calibration, 100 ms or more after
\* the sampling step that ran the analysis, and nothing was sampled.
C13_Witness ==
    /\ drift_check_performed
    /\ last_call.op = "translate"
    /\ last_call.report = ThresholdReport
    /\ ~is_calibrating
    /\ now - last_drift_check >= DriftPeriod
    /\ ret = "xinput_report"
    /\ emitted.drift_detected = <<>>
    /\ BuffersEmpty(drift_samples, drift_sample_count)

ClaimedSeverity(n) ==
    CASE n = 0 -> "none" [] n = 1 -> "mild" [] n = 2 -> "moderate" [] OTHER -> "severe"

\* C14: every emitted DriftResult has has_drift true iff its drift_axes is
\* non-empty, and its severity is given by the number of axes flagged in
\* that analysis pass: 0 none, 1 mild, 2 moderate, 3 or 4 severe.
C14_SeverityByFlaggedCount ==
    [][\A i \in DOMAIN emitted'.drift_detected :
          LET info == emitted'.drift_detected[i]
              flagged == {a \in Axes : ClaimedDrift(analysed_samples'[a])}
          IN  /\ info.has_drift <=> (info.drift_axes # <<>>)
              /\ Len(info.drift_axes) = Cardinality(flagged)
              /\ info.severity = ClaimedSeverity(Cardinality(flagged))]_vars

\* An analysis pass flagged three of the four axes and the result is severe.
C14_Witness ==
    /\ last_call.op = "translate"
    /\ drift_detected_axes = {"lx", "ly", "ry"}
    /\ emitted.drift_detected =
           <<[has_drift |-> TRUE,
              drift_axes |-> <<"Left X", "Left Y", "Right Y">>,
              severity |-> "severe"]>>

\* C15: in every reachable state, after any sequence of translate(),
\* calibration and drift-reset operations, each per-axis drift sample
\* buffer holds at most 30 entries, also at the moment the analysis reads it.
C15_BufferBounded ==
    \A a \in Axes :
        /\ Len(drift_samples[a]) <= 30
        /\ Len(analysed_samples[a]) <= 30

\* The analysis ran on buffers of exactly 30 entries and left them empty.
C15_Witness ==
    /\ last_call.op = "translate"
    /\ emitted.drift_detected # <<>>
    /\ \A a \in Axes : Len(analysed_samples[a]) = 30 /\ drift_samples[a] = <<>>

\* C20: whenever a calibration session completes (stop_calibration() ends
\* a session), the drift sample buffers, the sample count, the set of
\* flagged axes and drift_check_performed are reset.
C20_StopResetsDrift ==
    [][(last_call'.op = "stop_calibration" /\ is_calibrating /\ ~is_calibrating') =>
          /\ BuffersEmpty(drift_samples', drift_sample_count')
          /\ drift_detected_axes' = {}
          /\ ~drift_check_performed']_vars

\* The drift state a sampling step works on.
DriftState ==
    <<drift_sample_count, drift_samples, drift_detected_axes,
      last_drift_check, drift_check_performed>>

\* C24: two consecutive drift sampling steps (a step appends one sample
\* per axis or discards the buffers) are at least 100 ms of wall time
\* apart: last_drift_check is the time of the previous step (it changes in
\* sampling steps only, to the current time), every translate() call that
\* changes drift state comes at least 100 ms after it, and a call made
\* less than 100 ms after it changes no drift state and emits no event.
C24_SamplingGate ==
    [][/\ (last_drift_check' # last_drift_check) =>
            /\ TranslateStep
            /\ last_drift_check' = now
            /\ now - last_drift_check >= DriftPeriod
       /\ (TranslateStep /\ DriftState' # DriftState) =>
            /\ last_drift_check' = now
            /\ now - last_drift_check >= DriftPeriod
       /\ (TranslateStep /\ now - last_drift_check < DriftPeriod) =>
            /\ DriftState' = DriftState
            /\ emitted'.drift_detected = <<>>]_vars

\* An idle report was polled in the same 100 ms as the 29th sample and
\* left the 29 samples as they were.
C24_Witness ==
    /\ last_call.op = "translate"
    /\ last_call.report = RestReport
    /\ ~last_call.calibrating_before
    /\ ~drift_check_performed
    /\ last_drift_check = now
    /\ last_call.count_before = DriftWindow - 1
    /\ drift_sample_count = DriftWindow - 1

----------------------------------------------------------------------------
(* The two threads of the program.  The polling thread (LazyDS4._run_loop)  *)
(* calls translate(); the UI thread runs the calibration dialog's signals,  *)
(* which call start_calibration() and stop_calibration() on the same        *)
(* translator with no lock.  A call is cut where it reads or writes what    *)
(* the other thread writes: is_calibrating and calibration_data.            *)
(* threads.poll_pc and threads.ui_pc are the line each thread is at.        *)

MaxThreadTicks == 6   \* how far the wall clock advances

ThreadTick == Advance(1, MaxThreadTicks)

\* translate() lines 112-115 on a report that has just arrived: the length
\* check and the read of is_calibrating.  Outside calibration the rest of
\* translate() (lines 119-169) follows in the same step; the call has then
\* returned to _process_input, line 152.
PollTranslate(hid_report) ==
    /\ threads.poll_pc = "idle"
    /\ last_call' = Call("translate", hid_report)
    /\ IF ~TooShort(hid_report) /\ is_calibrating
       THEN /\ threads' = [threads EXCEPT !.poll_pc = "calibrate",
                                          !.hid_report = hid_report,
                                          !.arrived = now]
            /\ UNCHANGED <<xinput_report, last_battery_check, is_calibrating,
                           calibration_data, drift_detection_enabled,
                           drift_sample_count, drift_samples, drift_detected_axes,
                           last_drift_check, drift_check_performed, emitted, ret,
                           analysed_samples>>
       ELSE \E result \in {translate(Self, hid_report, now)} :
                /\ SetSelf(result.self)
                /\ ret' = result.ret
                /\ analysed_samples' = Analysed(hid_report, result.self)
                /\ threads' = [threads EXCEPT !.poll_pc = "process_152",
                                              !.hid_report = hid_report,
                                              !.arrived = now]
    /\ UNCHANGED <<session_samples, service, manager, now>>

\* calibrate() lines 82-104: the min/max update and the live signals.
PollCalibrate ==
    /\ threads.poll_pc = "calibrate"
    /\ SetSelf(calibrate_record(Self, threads.hid_report))
    /\ session_samples' =
           [a \in Axes |-> session_samples[a] \cup {StickByte(threads.hid_report, a)}]
    /\ threads' = [threads EXCEPT !.poll_pc = "calibrate_107"]
    /\ UNCHANGED <<ret, last_call, analysed_samples, service, manager, now>>

\* calibrate() lines 106-108, then translate() line 117: return None.
PollCalibrateReturn ==
    /\ threads.poll_pc = "calibrate_107"
    /\ \E after \in {calibrate_drift_check(Self, threads.hid_report, now)} :
           /\ SetSelf(after)
           /\ analysed_samples' = Analysed(threads.hid_report, after)
    /\ ret' = "None"
    /\ threads' = [threads EXCEPT !.poll_pc = "process_152"]
    /\ UNCHANGED <<last_call, session_samples, service, manager, now>>

\* _process_input lines 152-154: the report translate() returned is sent to
\* the virtual device unless it is None; threads.sent tells whether it was.
PollSend ==
    /\ threads.poll_pc = "process_152"
    /\ threads' = [threads EXCEPT !.poll_pc = "idle",
                                  !.sent = (ret # "None")]
    /\ UNCHANGED <<xinput_report, last_battery_check, is_calibrating,
                   calibration_data, drift_detection_enabled, drift_sample_count,
                   drift_samples, drift_detected_axes, last_drift_check,
                   drift_check_performed, emitted, ret, last_call, session_samples,
                   analysed_samples, service, manager, now>>

\* start_calibration() line 61
UiStartSetFlag ==
    /\ threads.ui_pc = "idle"
    /\ SetSelf([Self EXCEPT !.is_calibrating = TRUE])
    /\ threads' = [threads EXCEPT !.ui_pc = "start_62", !.start_begin = now]
    /\ UNCHANGED <<ret, last_call, session_samples, analysed_samples,
                   service, manager, now>>

\* start_calibration() lines 62-67, and the sleep of line 69 begins
UiStartResetTable ==
    /\ threads.ui_pc = "start_62"
    /\ SetSelf([Self EXCEPT !.calibration_data = SentinelTable])
    /\ session_samples' = [a \in Axes |-> {}]
    /\ threads' = [threads EXCEPT !.ui_pc = "start_69", !.wake = now + SettleDelay]
    /\ UNCHANGED <<ret, last_call, analysed_samples, service, manager, now>>

\* start_calibration() lines 69-70: the sleep is over, the signal is emitted
UiStartEmit ==
    /\ threads.ui_pc = "start_69"
    /\ now >= threads.wake
    /\ SetSelf([Self EXCEPT !.emitted.calibration_started = @ + 1])
    /\ threads' = [threads EXCEPT !.ui_pc = "idle"]
    /\ UNCHANGED <<ret, last_call, session_samples, analysed_samples,
                   service, manager, now>>

\* stop_calibration() line 74
UiStopClearFlag ==
    /\ threads.ui_pc = "idle"
    /\ SetSelf([Self EXCEPT !.is_calibrating = FALSE])
    /\ threads' = [threads EXCEPT !.ui_pc = "stop_78"]
    /\ UNCHANGED <<ret, last_call, session_samples, analysed_samples,
                   service, manager, now>>

\* stop_calibration() line 78
UiStopEmit ==
    /\ threads.ui_pc = "stop_78"
    /\ SetSelf(Emit(Self, "calibration_finished", calibration_data))
    /\ threads' = [threads EXCEPT !.ui_pc = "idle"]
    /\ UNCHANGED <<ret, last_call, session_samples, analysed_samples,
                   service, manager, now>>

ThreadReports == {ShortReport, RestReport, HighReport}

NextThreads ==
    \/ ThreadTick
    \/ \E r \in ThreadReports : PollTranslate(r)
    \/ PollCalibrate
    \/ PollCalibrateReturn
    \/ PollSend
    \/ UiStartSetFlag
    \/ UiStartResetTable
    \/ UiStartEmit
    \/ UiStopClearFlag
    \/ UiStopEmit

SpecThreads == Init /\ [][NextThreads]_vars

\* The polling thread writes the table with the report it holds.
TableWriteStep ==
    threads.poll_pc = "calibrate" /\ threads'.poll_pc = "calibrate_107"

\* C19: no report that arrives within the 0.5 s settling delay after
\* start_calibration() begins changes a min or max of the calibration
\* table as start_calibration() reset it, also when the polling loop keeps
\* calling translate() while start_calibration() is still running on the
\* UI thread.
C19_SettlingDelayHonoured ==
    [][(/\ TableWriteStep
        /\ threads.ui_pc # "start_62"
        /\ threads.start_begin >= 0
        /\ threads.arrived >= threads.start_begin
        /\ threads.arrived - threads.start_begin < SettleDelay)
       => calibration_data' = calibration_data]_vars

\* The polling thread passes the report translate() returned to
\* vigem.send_report (line 153).
SendStep ==
    /\ threads.poll_pc = "process_152"
    /\ threads'.poll_pc = "idle"
    /\ threads'.sent

\* C26: the host loop never forwards a report to the virtual device while
\* the translator is Calibrating (from start_calibration() setting the flag
\* to stop_calibration() clearing it), under every interleaving of the
\* polling thread with the thread that starts and stops calibration.
C26_NoSendWhileCalibrating ==
    [][SendStep => ~is_calibrating]_vars

\* The polling thread finishes a calibrate() call it entered before the stop.
LateCalibrateStep ==
    /\ threads.poll_pc \in {"calibrate", "calibrate_107"}
    /\ threads'.poll_pc # threads.poll_pc
    /\ threads.ui_pc = "idle"
    /\ ~is_calibrating

\* C29: once stop_calibration() has emitted calibration-finished, no later
\* step writes a min or max of the table until the next
\* start_calibration(): a translate() call that read the Calibrating flag
\* before the stop does not update the table, emit a progress update or
\* run a drift check after the stop.
C29_NoWriteAfterStop ==
    [][LateCalibrateStep =>
          /\ calibration_data' = calibration_data
          /\ emitted'.calibration_updated = <<>>
          /\ DriftState' = DriftState]_vars

----------------------------------------------------------------------------
(* The battery throttle: the translator has extracted a battery status at   *)
(* StartTime; the loop goes on polling while the wall clock passes two      *)
(* throttle periods 100 ms at a time, with calibration sessions in between. *)

MaxThrottleTicks == 42   \* how far the wall clock advances: past two throttle periods

InitThrottle ==
    \E first \in {translate(NewTranslator, RestReport, StartTime)} :
        InitFrom(first.self, StartTime)

ThrottleTick == Advance(1, MaxThrottleTicks)

\* A full report with the D-pad released (byte 5 = 8) and a battery byte
ThrottleReport == BatteryReport(0, 21)

ThrottleReports == {ShortReport, ThrottleReport}

NextThrottle ==
    \/ ThrottleTick
    \/ \E r \in ThrottleReports : Translate(r)
    \/ StartCalibration
    \/ StopCalibration

SpecThrottle == InitThrottle /\ [][NextThrottle]_vars

\* A step in which translate() emitted a battery status.
BatteryStep == TranslateStep /\ emitted'.battery_status_updated # <<>>

\* C21: a battery status is emitted only when more than 2 s of wall time
\* have passed since the previous extraction (last_battery_check is the
\* time of the previous extraction: it changes in extraction steps only,
\* to the current time), and no extraction happens for a short report or
\* while Calibrating.
C21_BatteryThrottled ==
    [][/\ BatteryStep =>
            /\ now - last_battery_check > BatteryPeriod
            /\ last_battery_check' = now
            /\ Len(emitted'.battery_status_updated) = 1
       /\ (last_battery_check' # last_battery_check) => BatteryStep
       /\ (TranslateStep /\ (ReportLen(last_call'.report) < MinReportLen
                                \/ is_calibrating))
            => /\ emitted'.battery_status_updated = <<>>
               /\ last_battery_check' = last_battery_check]_vars

\* A second battery status was emitted, 2.1 s after the first, by a
\* translator that had been polled in a calibration session in between.
C21_Witness ==
    /\ last_call.op = "translate"
    /\ emitted.battery_status_updated # <<>>
    /\ last_battery_check = StartTime + BatteryPeriod + 1
    /\ now = last_battery_check
    /\ calibration_data # SentinelTable

----------------------------------------------------------------------------
(* calibrate() as a method of its own: it is called with reports of every   *)
(* length, inside and outside calibration sessions, next to the calls the   *)
(* loop makes through translate().                                          *)

MaxCalibrateTicks == 1   \* how far the wall clock advances

\* _check_for_drift lines 300-301 read bytes 5, 6, 8 and 9 (the "or"s stop at
\* the first true operand): an IndexError on a report that ends before the
\* byte that is read.
DriftReadRaises(hid_report) ==
    LET n == ReportLen(hid_report)
    IN  \/ n <= 5
        \/ hid_report[5] = 0 /\ n <= 6
        \/ n <= 8
        \/ hid_report[8] <= TriggerThreshold /\ n <= 9

\* calibrate(hid_report) called at current_time.  The result is [self, ret];
\* ret is "None" or the exception that left the call.
calibrate_call(s, hid_report, current_time) ==
    IF ReportLen(hid_report) = 0 \/ ReportLen(hid_report) < MinCalibLen
    THEN [self |-> s, ret |-> "None"]
    ELSE LET s1 == calibrate_record(s, hid_report)
         IN  IF /\ ~s1.is_calibrating
                /\ current_time - s1.last_drift_check >= DriftPeriod
                /\ DriftReadRaises(hid_report)
             THEN [self |-> [s1 EXCEPT !.last_drift_check = current_time],
                   ret |-> "IndexError"]
             ELSE [self |-> calibrate_drift_check(s1, hid_report, current_time),
                   ret |-> "None"]

Calibrate(hid_report) ==
    \E result \in {calibrate_call(Self, hid_report, now)} :
        /\ SetSelf(result.self)
        /\ ret' = result.ret
        /\ last_call' = Call("calibrate", hid_report)
        /\ session_samples' =
               IF is_calibrating /\ ReportLen(hid_report) >= MinCalibLen
               THEN [a \in Axes |-> session_samples[a] \cup {StickByte(hid_report, a)}]
               ELSE session_samples
        /\ analysed_samples' = Analysed(hid_report, result.self)
        /\ UNCHANGED <<threads, service, manager, now>>

CalibrateTick == Advance(1, MaxCalibrateTicks)

FourByteReport == [i \in 0..3 |-> 200]
FiveByteLow == [i \in 0..4 |-> CASE i = 1 -> 20 [] i = 2 -> 100 [] OTHER -> 128]
FiveByteHigh == [i \in 0..4 |-> CASE i = 1 -> 230 [] i = 2 -> 150 [] OTHER -> 128]

CalibrateReports ==
    {EmptyReport, FourByteReport, FiveByteLow, FiveByteHigh, RestReport}

NextCalibrate ==
    \/ CalibrateTick
    \/ \E r \in CalibrateReports : Calibrate(r)
    \/ Translate(LowReport)
    \/ StartCalibration
    \/ StopCalibration

SpecCalibrate == Init /\ [][NextCalibrate]_vars

\* A step that is a direct call of calibrate().
CalibrateStep == last_call'.op = "calibrate" /\ now' = now

\* C23: calibrate(report) with a report of at least 5 bytes sets, for each
\* axis, min to the smaller of the old min and the axis byte and max to the
\* larger of the old max and the axis byte, leaves every center at 128 and
\* emits exactly one calibration-progress update; with an empty report or
\* one shorter than 5 bytes it changes nothing and emits nothing.  So while
\* a session lasts (no start_calibration() opens a new one) no step
\* increases a min or decreases a max.
C23_CalibrateWidens ==
    [][/\ (CalibrateStep /\ ReportLen(last_call'.report) >= MinCalibLen) =>
            /\ \A a \in Axes :
                  /\ calibration_data'[a].min =
                        Min(calibration_data[a].min, StickByte(last_call'.report, a))
                  /\ calibration_data'[a].max =
                        Max(calibration_data[a].max, StickByte(last_call'.report, a))
                  /\ calibration_data'[a].center = 128
            /\ emitted'.calibration_updated = <<calibration_data'>>
       /\ (CalibrateStep /\ ReportLen(last_call'.report) < MinCalibLen) =>
            /\ Self' = Self
            /\ emitted' = NoSignals
       /\ (is_calibrating /\ is_calibrating' /\ last_call'.op # "start_calibration") =>
            \A a \in Axes :
                /\ calibration_data'[a].min <= calibration_data[a].min
                /\ calibration_data'[a].max >= calibration_data[a].max]_vars

\* calibrate() was called with a 5-byte report in a session that had
\* recorded another position before: LeftX spans 20..230.
C23_Witness ==
    /\ last_call.op = "calibrate"
    /\ ReportLen(last_call.report) = MinCalibLen
    /\ is_calibrating
    /\ calibration_data["lx"] = [min |-> 20, max |-> 230, center |-> 128]
    /\ Len(emitted.calibration_updated) = 1

----------------------------------------------------------------------------
(* The normalizer over every raw byte: the translator is fresh, or has had  *)
(* one calibration session whose left-stick samples reached from m to M;    *)
(* the loop then polls reports with all four stick bytes at v.              *)

\* The extremes a session reached on LeftX
SessionExtremes == {0, 20, 100, 120, 127, 128, 129, 136, 150, 230, 255}

\* start_calibration(), two polls at the extremes, stop_calibration()
SessionRun(m, M) ==
    LET started == [self |-> start_calibration(NewTranslator), ret |-> "none yet"]
        polled == RunPolls(started, <<CalibReport(m), CalibReport(M)>>, StartTime)
    IN  stop_calibration([polled.self EXCEPT !.emitted = NoSignals])

InitDeadzone ==
    \/ Init
    \/ \E m \in SessionExtremes : \E M \in {x \in SessionExtremes : x >= m} :
         \E s \in {SessionRun(m, M)} : InitFrom(s, StartTime)

\* The stick positions the loop polls
SweepBytes == {0, 20, 100, 114, 120, 127, 128, 129, 136, 150, 230, 255}

\* All four stick bytes at v, D-pad released
SweepReport(v) == Report(FullReportLen, v, v, v, v, 8, 0, 0, 0, 0, 0)

NextDeadzone == \E v \in SweepBytes : Translate(SweepReport(v))

SpecDeadzone == InitDeadzone /\ [][NextDeadzone]_vars

\* The four stick outputs of the persistent report, by axis.
StickOutput(report) ==
    [a \in Axes |->
        CASE a = "lx" -> report.sThumbLX [] a = "ly" -> report.sThumbLY
          [] a = "rx" -> report.sThumbRX [] a = "ry" -> report.sThumbRY]

Inverted(a) == a \in {"ly", "ry"}

\* translate() has decoded a full report with the table as it is now.
Decoded ==
    /\ last_call.op = "translate"
    /\ ReportLen(last_call.report) >= MinReportLen
    /\ ~last_call.calibrating_before
    /\ ret = "xinput_report"

\* Full scale in the direction of v from 128, 0 at 128.
ClaimedUncalibrated(v, invert) ==
    LET plain == IF v = 128 THEN 0 ELSE IF v > 128 THEN FullScale ELSE -FullScale
    IN  IF invert THEN -plain ELSE plain

\* C25: while every entry is at the sentinel (min = 255, max = 0), as in a
\* freshly created translator, the normalizer gives 0 on an axis only for
\* raw byte 128 and full scale (magnitude 32767, sign by direction and
\* inversion) for every other raw byte, and translate() outputs these
\* values for the report it was given.
C25_UncalibratedFullScale ==
    calibration_data = SentinelTable =>
        /\ \A a \in Axes, v \in Byte, invert \in BOOLEAN :
              normalize_stick(calibration_data, v, a, invert) =
                  [raised |-> FALSE, value |-> ClaimedUncalibrated(v, invert)]
        /\ Decoded =>
              \A a \in Axes :
                  StickOutput(xinput_report)[a] =
                      ClaimedUncalibrated(StickByte(last_call.report, a), Inverted(a))

\* Byte 129, one above the centre, was translated by a fresh translator to
\* full scale on LeftX and to minus full scale on the inverted LeftY.
C25_Witness ==
    /\ last_call.op = "translate"
    /\ last_call.report = SweepReport(129)
    /\ calibration_data = SentinelTable
    /\ xinput_report.sThumbLX = FullScale
    /\ xinput_report.sThumbLY = -FullScale

\* The normalizer with a fixed deadzone of 4000 and no proportional term.
ClaimedFixedDeadzone(entry, v, invert) ==
    LET den == IF v > entry.center THEN Max(entry.max - entry.center, 1)
               ELSE Max(entry.center - entry.min, 1)
        num == (v - entry.center) * FullScale
        scaled == IF Abs(num) < FixedDeadzone * den THEN 0
                  ELSE Max(-FullScale, Min(FullScale, TruncDiv(num, den)))
    IN  IF invert THEN -scaled ELSE scaled

\* C28: for every raw byte and every calibration entry the adaptive
\* deadzone zeroes the output exactly when a fixed deadzone of 4000 would
\* (the proportional term never changes the result), and every stick
\* value the normalizer produces, those translate() has output included,
\* is 0 or has magnitude between 4000 and 32767.
C28_DeadzoneIsFixed ==
    /\ \A a \in Axes, v \in Byte :
          LET n == normalize_stick(calibration_data, v, a, Inverted(a))
          IN  /\ ~n.raised
              /\ n.value = ClaimedFixedDeadzone(calibration_data[a], v, Inverted(a))
              /\ n.value = 0 \/ Abs(n.value) \in FixedDeadzone..FullScale
    /\ Decoded =>
          \A a \in Axes :
              /\ StickOutput(xinput_report)[a] =
                     ClaimedFixedDeadzone(calibration_data[a],
                                          StickByte(last_call.report, a), Inverted(a))
              /\ \/ StickOutput(xinput_report)[a] = 0
                 \/ Abs(StickOutput(xinput_report)[a]) \in FixedDeadzone..FullScale

\* Under a table whose LeftX reaches from 20 to 129 (negative range 108,
\* positive range 1) byte 114 was translated to a value inside the range,
\* above the deadzone.
C28_Witness ==
    /\ last_call.op = "translate"
    /\ calibration_data["lx"] = [min |-> 20, max |-> 129, center |-> 128]
    /\ last_call.report = SweepReport(114)
    /\ xinput_report.sThumbLX < -FixedDeadzone
    /\ xinput_report.sThumbLX > -FullScale

----------------------------------------------------------------------------
(* The settings manager under set() and reset_to_defaults() calls, from     *)
(* every settings file it can be constructed with.                          *)

\* The translator's variables, the polling bookkeeping and the clock.
TranslatorVars ==
    <<xinput_report, last_battery_check, is_calibrating, calibration_data,
      drift_detection_enabled, drift_sample_count, drift_samples,
      drift_detected_axes, last_drift_check, drift_check_performed,
      emitted, ret, last_call, session_samples, analysed_samples, threads>>

InitSettings ==
    \E file \in Files :
        InitHost(NewTranslator, StartTime, NewService, NewManager(file))

Set(category, key, value) ==
    /\ manager' = [set(manager, category, key, value) EXCEPT
                       !.last_call = [op |-> "set", category |-> category]]
    /\ UNCHANGED <<TranslatorVars, service, now>>

ResetToDefaults(category) ==
    /\ manager' = [reset_to_defaults(manager, category) EXCEPT
                       !.last_call = [op |-> "reset_to_defaults",
                                      category |-> category]]
    /\ UNCHANGED <<TranslatorVars, service, now>>

NextSettings ==
    \/ \E c \in Categories : \E k \in KeysOf(c) : \E v \in SettingValues :
          Set(c, k, v)
    \/ \E c \in Categories \cup {"None"} : ResetToDefaults(c)

SpecSettings == InitSettings /\ [][NextSettings]_vars

\* C27: after any sequence of set() calls, reset_to_defaults() (for all
\* categories, or for one) makes every affected setting equal to the value
\* it had in the defaults when the SettingsManager was constructed, also
\* when the settings were first created from defaults or were reset before.
C27_ResetRestoresDefaults ==
    manager.last_call.op = "reset_to_defaults" =>
        \A c \in Categories :
            manager.last_call.category \in {"None", c} =>
                settings_of(manager)[c] = manager.original[c]

----------------------------------------------------------------------------
(* The host service under the UI's start() and stop() calls, while the      *)
(* controller is plugged in and out.  A polling thread is cut at the lines  *)
(* where it sleeps or reads what the UI thread writes; a thread that is not *)
(* asleep runs on before the clock (1 s a tick here) advances.              *)

MaxServiceTicks == 80   \* how far the wall clock advances

Alive(loop) == loop.pc \notin {"unborn", "dead"}

\* _disconnect_controller (lines 132-143)
Disconnected(svc) ==
    [svc EXCEPT !.vigem = "None", !.ds4 = "None", !.translator = <<>>]

\* The error path of _run_loop (lines 96-99): the controller is
\* disconnected and thread i sleeps 3 s.
LostConnection(svc, i, t) ==
    [Disconnected(svc) EXCEPT
        !.loops[i] = [pc |-> "backoff", wake |-> t + LostBackoff,
                      attempt |-> 0, callee |-> <<>>]]

ServiceStep(svc) ==
    /\ service' = svc
    /\ UNCHANGED <<TranslatorVars, manager, now>>

\* start() (lines 65-74)
Start ==
    /\ service.ui_pc = "idle"
    /\ ~service.running
    /\ \E i \in ThreadIds :
          /\ service.loops[i].pc = "unborn"
          /\ \A j \in ThreadIds : j < i => service.loops[j].pc # "unborn"
          /\ ServiceStep([service EXCEPT
                             !.running = TRUE, !.thread = i,
                             !.loops[i] = [Unborn EXCEPT !.pc = "while_88"]])

\* stop() lines 78-81: the event is cleared and the UI thread joins the
\* polling thread for at most 2 s (with no live thread it goes on at once).
StopBegin ==
    /\ service.ui_pc = "idle"
    /\ service.running
    /\ IF service.thread # 0 /\ Alive(service.loops[service.thread])
       THEN ServiceStep([service EXCEPT !.running = FALSE, !.ui_pc = "join_81",
                                        !.join_deadline = now + JoinTimeout])
       ELSE ServiceStep(Disconnected([service EXCEPT !.running = FALSE]))

\* stop() lines 81-84: the thread has ended or the join has timed out;
\* _disconnect_controller() runs and stop() returns.
StopReturn ==
    /\ service.ui_pc = "join_81"
    /\ \/ ~Alive(service.loops[service.thread])
       \/ now >= service.join_deadline
    /\ ServiceStep(Disconnected([service EXCEPT !.ui_pc = "idle"]))

\* _run_loop lines 88-95: the loop test and the choice between connecting
\* and processing input.
LoopTest(i) ==
    /\ service.loops[i].pc = "while_88"
    /\ IF ~service.running
       THEN ServiceStep([service EXCEPT !.loops[i].pc = "dead"])
       ELSE IF service.ds4 = "None" \/ ~service.plugged
       THEN ServiceStep([(IF service.ds4 # "None" THEN Disconnected(service)
                                                    ELSE service) EXCEPT
                            !.loops[i].pc = "connect_113", !.loops[i].attempt = 0])
       ELSE ServiceStep([service EXCEPT !.loops[i].pc = "read_148"])

\* _connect_controller lines 113-127 with one attempt of
\* DS4Controller._connect (lines 39-80): with the controller found the three
\* resources are assigned; otherwise the attempt sleeps RETRY_DELAY.
ConnectAttempt(i) ==
    /\ service.loops[i].pc = "connect_113"
    /\ IF service.plugged
       THEN ServiceStep([service EXCEPT
                            !.ds4 = "open", !.vigem = "open",
                            !.translator = <<i, now>>,
                            !.loops[i].pc = "sleep_108"])
       ELSE ServiceStep([service EXCEPT
                            !.loops[i].pc = "retry_46",
                            !.loops[i].wake = now + RetryDelay,
                            !.loops[i].attempt = @ + 1])

\* DS4Controller._connect: the next attempt, or after the last one the
\* ConnectionError of line 82, caught at LazyDS4.py line 128: sleep 5 s.
RetryWake(i) ==
    /\ service.loops[i].pc = "retry_46"
    /\ now >= service.loops[i].wake
    /\ IF service.loops[i].attempt < MaxRetryAttempts
       THEN ServiceStep([service EXCEPT !.loops[i].pc = "connect_113"])
       ELSE ServiceStep([service EXCEPT
                            !.loops[i].pc = "backoff",
                            !.loops[i].wake = now + ConnectBackoff])

\* The back-off sleep (line 99 or line 130) is over.
BackoffWake(i) ==
    /\ service.loops[i].pc = "backoff"
    /\ now >= service.loops[i].wake
    /\ ServiceStep([service EXCEPT !.loops[i].pc = "sleep_108"])

\* _process_input lines 148-150: read_input() returns a report and the
\* thread enters translate() on self.translator, or returns no data; with
\* the device gone (unplugged, or released by another thread) the error
\* path is taken.
ReadInput(i) ==
    /\ service.loops[i].pc = "read_148"
    /\ IF service.ds4 = "None" \/ service.translator = <<>> \/ ~service.plugged
       THEN ServiceStep(LostConnection(service, i, now))
       ELSE \/ ServiceStep([service EXCEPT
                               !.loops[i].pc = "translate_150",
                               !.loops[i].callee = service.translator])
            \/ ServiceStep([service EXCEPT !.loops[i].pc = "sleep_108"])

\* _process_input lines 150-154: translate() returns and the report is sent
\* (with the virtual controller released meanwhile: the error path).
TranslateReturn(i) ==
    /\ service.loops[i].pc = "translate_150"
    /\ IF service.vigem = "None"
       THEN ServiceStep(LostConnection(service, i, now))
       ELSE ServiceStep([service EXCEPT !.loops[i].pc = "sleep_108",
                                        !.loops[i].callee = <<>>])

\* _run_loop line 108: the 2 ms sleep is over.
LoopSleep(i) ==
    /\ service.loops[i].pc = "sleep_108"
    /\ ServiceStep([service EXCEPT !.loops[i].pc = "while_88"])

\* The user plugs the controller in or pulls it out.
Plug ==
    ServiceStep([service EXCEPT !.plugged = ~@])

\* No thread has a step to take before the clock reaches now + d: each is
\* unborn, dead, asleep until then, or between two polls of a running loop.
Quiet(d) ==
    /\ \A i \in ThreadIds :
          LET loop == service.loops[i]
          IN  \/ ~Alive(loop)
              \/ loop.pc = "sleep_108" /\ service.running
              \/ loop.pc \in {"retry_46", "backoff"} /\ now + d <= loop.wake
    /\ service.ui_pc = "join_81" =>
          /\ Alive(service.loops[service.thread])
          /\ now + d <= service.join_deadline

ServiceTick == Quiet(RetryDelay) /\ Advance(RetryDelay, MaxServiceTicks)

NextService ==
    \/ ServiceTick
    \/ Start
    \/ StopBegin
    \/ StopReturn
    \/ Plug
    \/ \E i \in ThreadIds :
          \/ LoopTest(i)
          \/ ConnectAttempt(i)
          \/ RetryWake(i)
          \/ BackoffWake(i)
          \/ ReadInput(i)
          \/ TranslateReturn(i)
          \/ LoopSleep(i)

InitService ==
    InitHost(NewTranslator, StartTime, NewService, NewManager(NoFile))

SpecService == InitService /\ [][NextService]_vars

AliveThreads == {i \in ThreadIds : Alive(service.loops[i])}

\* C22: under any sequence of start() and stop() calls at most one
\* polling-loop thread is alive at a time, so translate() never executes
\* in two threads at once on the same translator instance.
C22_OnePollingThread ==
    /\ Cardinality(AliveThreads) <= 1
    /\ \A i \in ThreadIds : \A j \in ThreadIds \ {i} :
          ~(/\ service.loops[i].pc = "translate_150"
            /\ service.loops[j].pc = "translate_150"
            /\ service.loops[i].callee = service.loops[j].callee)

\* C30: after stop() has returned (and until start() is called again) the
\* DS4 device, the virtual controller and the translator are all released
\* (None) in every state, also when stop() was called while the thread was
\* in a connection attempt or a back-off sleep that outlasts the 2 s join.
C30_StoppedHoldsNothing ==
    (~service.running /\ service.ui_pc = "idle") =>
        /\ service.ds4 = "None"
        /\ service.vigem = "None"
        /\ service.translator = <<>>

====
